---- MODULE Spec2Model ----
(***************************************************************************)
(* warbler (src/src/index.js): a parser-combinator library.                *)
(*                                                                         *)
(* Strings are sequences of one-character strings.  A parser value is a    *)
(* node record; calling it is the operator Call.  Results carry, besides   *)
(* success/value/rest, the state of the environment object the callee was  *)
(* handed (environments are mutated in place by advance), the accumulator  *)
(* of the enclosing mapSeq and the exception the call raised, if any.      *)
(***************************************************************************)
EXTENDS Integers, Sequences, FiniteSets, TLC

VARIABLES op, args, input, parser, result, second, pc

vars == <<op, args, input, parser, result, second, pc>>

----------------------------------------------------------------------------
(* Bounds of the model *)

MaxLen == 3
MaxText == 2
MaxN == 3

----------------------------------------------------------------------------
(* JavaScript values: undefined, strings, numbers, arrays, objects *)

(* A number is held as its decimal digits without leading zeros, which is  *)
(* exact for the integers of up to 15 digits the inputs can spell.         *)
VUndef == [t |-> "undefined", s |-> <<>>, l |-> <<>>]
VStr(s) == [t |-> "string", s |-> s, l |-> <<>>]
VNum(digits) == [t |-> "number", s |-> digits, l |-> <<>>]
VList(l) == [t |-> "array", s |-> <<>>, l |-> l]
VObj(l) == [t |-> "object", s |-> <<>>, l |-> l]

NL == "\n"

(* String.prototype.startsWith *)
startsWith(str, prefix) ==
    /\ Len(prefix) <= Len(str)
    /\ SubSeq(str, 1, Len(prefix)) = prefix

(* String.prototype.slice(n) for n >= 0 *)
slice(str, n) == SubSeq(str, n + 1, Len(str))

(* input.split('\n').length - 1 *)
newlines(str) == Cardinality({i \in 1..Len(str) : str[i] = NL})

(* input.lastIndexOf('\n'), 0-based, -1 when there is none *)
lastIndexOf(str) ==
    LET at == {i \in 1..Len(str) : str[i] = NL}
    IN  IF at = {} THEN -1 ELSE (CHOOSE i \in at : \A j \in at : j <= i) - 1

(* decimal rendering of a number inside a template literal *)
RECURSIVE decimal(_)
decimal(n) ==
    LET d == <<"0", "1", "2", "3", "4", "5", "6", "7", "8", "9">>
    IN  IF n < 10 THEN <<d[n + 1]>> ELSE decimal(n \div 10) \o <<d[(n % 10) + 1]>>

(* Number(s) for a string of decimal digits: leading zeros do not count *)
RECURSIVE Number(_)
Number(s) ==
    IF Len(s) > 1 /\ s[1] = "0" THEN Number(Tail(s)) ELSE VNum(s)

(* lodash.trunc(input, n): at most n characters, the last three an ellipsis *)
trunc(str, n) ==
    IF Len(str) <= n THEN str ELSE SubSeq(str, 1, n - 3) \o <<".", ".", ".">>

----------------------------------------------------------------------------
(* Parser values and shorthands.  k is the kind, f a name (a regex source, *)
(* a mapping function), n a number, s a string, ps the captured values.    *)

Node(k, f, n, s, ps) == [k |-> k, f |-> f, n |-> n, s |-> s, ps |-> ps]

Undefined == Node("undefined", "", 0, <<>>, <<>>)
Str(s) == Node("string", "", 0, s, <<>>)
Regex(src) == Node("regex", src, 0, <<>>, <<>>)
Array(ps) == Node("array", "", 0, <<>>, ps)
TypeError == Node("TypeError", "", 0, <<>>, <<>>)

Threw(p) == p.k = "TypeError"
AnyThrew(ps) == \E i \in 1..Len(ps) : Threw(ps[i])

----------------------------------------------------------------------------
(* Environments: a prototype chain, the object itself last.  A frame holds *)
(* the object's own properties; line/col 0 and terminals "absent" stand    *)
(* for a property the object does not own.  <<>> is an undefined env.      *)

Absent == Node("absent", "", 0, <<>>, <<>>)
NoEnv == <<>>

RECURSIVE envLine(_)
envLine(env) ==
    IF env[Len(env)].line # 0 THEN env[Len(env)].line
    ELSE envLine(SubSeq(env, 1, Len(env) - 1))

RECURSIVE envCol(_)
envCol(env) ==
    IF env[Len(env)].col # 0 THEN env[Len(env)].col
    ELSE envCol(SubSeq(env, 1, Len(env) - 1))

(* a slip: the default environment is one object of the module, which     *)
(* still holds the position the previous run reached                       *)
defltShared ==
    IF result.env = NoEnv THEN [line |-> 1, col |-> 1, terminals |-> Absent]
    ELSE [line |-> envLine(result.env), col |-> envCol(result.env),
          terminals |-> Absent]

deflt == [line |-> 1, col |-> 1, terminals |-> Absent]
Own(t) == [line |-> 0, col |-> 0, terminals |-> t]

environment(parent, t) ==
    (IF parent = NoEnv THEN <<deflt>> ELSE parent) \o <<Own(t)>>

RECURSIVE envTerminals(_)
envTerminals(env) ==
    IF env = <<>> THEN Undefined
    ELSE IF env[Len(env)].terminals.k # "absent" THEN env[Len(env)].terminals
    ELSE envTerminals(SubSeq(env, 1, Len(env) - 1))

advance(env, consumed) ==
    LET line == envLine(env) + newlines(consumed)
        lastNewline == lastIndexOf(consumed)
        col == IF lastNewline # -1 THEN Len(consumed) - lastNewline ELSE 0
        this == env[Len(env)]
    IN  [env EXCEPT ![Len(env)] =
            [this EXCEPT !.line = line,
                         !.col = IF col # 0 THEN col ELSE this.col]]

(* the state of the object a caller passed, after the callee returned *)
Thread(passed, after) == IF passed = NoEnv THEN NoEnv ELSE after

----------------------------------------------------------------------------
(* Parse results *)

NoAcc == <<>>

Result(success, val, rest, env, acc) ==
    [success |-> success, value |-> val, rest |-> rest,
     env |-> env, acc |-> acc, exc |-> "none"]

Throw(in, env, acc) ==
    [success |-> FALSE, value |-> VUndef, rest |-> in,
     env |-> env, acc |-> acc, exc |-> "TypeError"]

Diverge(in, env, acc) ==
    [success |-> FALSE, value |-> VUndef, rest |-> in,
     env |-> env, acc |-> acc, exc |-> "diverge"]

isSuccess(r) == r.success /\ Len(r.rest) = 0

value(r) == r.value

----------------------------------------------------------------------------
(* Construction of parsers (build time) *)

RECURSIVE toParser(_)
RECURSIVE seq(_)
RECURSIVE or(_)

(* mapping functions handed to map: name, numeric argument, string argument *)
Fn(f, n, s) == [f |-> f, n |-> n, s |-> s]

or(parserDescs) ==
    LET parsers == [i \in 1..Len(parserDescs) |-> toParser(<<parserDescs[i]>>)]
    IN  IF AnyThrew(parsers) THEN TypeError
        ELSE toParser(<<Node("orFn", "", 0, <<>>, parsers)>>)

seq(parserDescs) ==
    LET parsers == [i \in 1..Len(parserDescs) |-> toParser(<<parserDescs[i]>>)]
    IN  IF AnyThrew(parsers) THEN TypeError
        ELSE toParser(<<Node("seqFn", "", 0, <<>>, parsers)>>)

(* W(...): the closure f(parser) of toParser, with the mapping methods *)
toParser(arguments) ==
    LET p == arguments[1]
    IN  IF p.k = "undefined" \/ Threw(p) THEN TypeError
        ELSE IF Len(arguments) > 1 THEN or(arguments)
        ELSE IF p.k = "array" THEN seq(p.ps)
        ELSE Node("W", "", 0, <<>>, <<p>>)

many(p) ==
    IF Threw(p) THEN TypeError
    ELSE toParser(<<Node("manyFn", "", 0, <<>>, <<p>>)>>)

opt(parserDesc) ==
    LET p == toParser(<<parserDesc>>)
    IN  IF Threw(p) THEN TypeError
        ELSE toParser(<<Node("optFn", "", 0, <<>>, <<p>>)>>)

(* terminals(f)(parser): a bare closure, not passed through toParser *)
terminals(f, p) ==
    IF Threw(p) THEN TypeError
    ELSE Node("terminalsFn", "", 0, <<>>, <<f, p>>)

map(p, fn) ==
    IF Threw(p) THEN TypeError
    ELSE toParser(<<Node("mapFn", fn.f, fn.n, fn.s, <<p>>)>>)

mapConst(p, c) == map(p, Fn("const", 0, c))

mapNth(p, n) == map(p, Fn("nth", n, <<>>))

mapSkip(p, n) == map(p, Fn("skip", n, <<>>))

mapSkipLast(p, n) == map(p, Fn("skipLast", n, <<>>))

mapTake(p, n) == map(p, Fn("take", n, <<>>))

mapTakeLast(p, n) == map(p, Fn("takeLast", n, <<>>))

(* skip(ignore)(parser) *)
skip(ignore, p) ==
    IF Threw(ignore) \/ Threw(p) THEN TypeError
    ELSE toParser(<<mapNth(seq(<<ignore, p, ignore>>), 1)>>)

wrap(left, right, wrapped) ==
    LET w == IF wrapped.k = "undefined" THEN right ELSE wrapped
        r == IF wrapped.k = "undefined" THEN left ELSE right
    IN  IF Threw(left) \/ Threw(right) \/ Threw(wrapped) THEN TypeError
        ELSE toParser(<<Node("wrapFn", "", 0, <<>>, <<left, r, w>>)>>)

(* mapSeq(seqFn): ps is the array seqFn returns; an element tagged with    *)
(* to(key) is map(p, Fn("to", 0, key))                                     *)
mapSeq(elems) ==
    toParser(<<Node("mapSeqFn", "", 0, <<>>, elems)>>)

(* a slip: the separators' values are not projected away *)
listKeepsSeparators(p, interstitial) ==
    map(opt(map(seq(<<p, many(seq(<<interstitial, p>>))>>),
                Fn("[a, ...b]", 0, <<>>))),
        Fn("x || []", 0, <<>>))

list(p, interstitial) ==
    map(opt(map(seq(<<p, many(map(seq(<<interstitial, p>>), Fn("x[1]", 0, <<>>)))>>),
                Fn("[a, ...b]", 0, <<>>))),
        Fn("x || []", 0, <<>>))

digit == toParser(<<Regex("[0-9]")>>)

integer == map(toParser(<<Regex("[0-9]+")>>), Fn("Number", 0, <<>>))

whitespace == toParser(<<Regex("\\s*")>>)

lazyMany(a, stop) ==
    LET p == toParser(<<a>>)
        stopParser == toParser(<<stop>>)
    IN  IF Threw(p) \/ Threw(stopParser) THEN TypeError
        ELSE toParser(<<Node("lazyManyFn", "", 0, <<>>, <<p, stopParser>>)>>)

any == Node("any", "", 0, <<>>, <<>>)

expect(p, expectation) ==
    IF Threw(p) THEN TypeError
    ELSE toParser(<<Node("expectFn", "", 0, expectation, <<p>>)>>)

(* the README's hand-written parser *)
parseX == Node("parseX", "", 0, <<>>, <<>>)

(* the functions a grammar hands to terminals: skip(ignore), W, opt *)
SkipFn(ignore) == Node("skip", "", 0, <<>>, <<ignore>>)
WFn == Node("toParser", "", 0, <<>>, <<>>)
OptFn == Node("opt", "", 0, <<>>, <<>>)

ApplyWrapper(f, term) ==
    CASE f.k = "skip" -> skip(f.ps[1], term)
      [] f.k = "toParser" -> toParser(<<term>>)
      [] f.k = "opt" -> opt(term)
      [] OTHER -> TypeError

----------------------------------------------------------------------------
(* Terminal parsers *)

Digits == {"0", "1", "2", "3", "4", "5", "6", "7", "8", "9"}
Spaces == {" ", "\t", NL}

(* the longest prefix of str made of characters of cls *)
RECURSIVE run(_, _)
run(cls, str) ==
    IF str # <<>> /\ str[1] \in cls THEN <<str[1]>> \o run(cls, slice(str, 1))
    ELSE <<>>

(* regex.exec(input) for the built-in regexes: index -1 stands for null *)
regexExec(src, str) ==
    CASE src = "[0-9]" ->
            LET at == {i \in 1..Len(str) : str[i] \in Digits}
                first == CHOOSE i \in at : \A j \in at : i <= j
            IN  IF at = {} THEN [index |-> -1, text |-> <<>>]
                ELSE [index |-> first - 1, text |-> <<str[first]>>]
      [] src = "[0-9]+" ->
            LET at == {i \in 1..Len(str) : str[i] \in Digits}
                first == CHOOSE i \in at : \A j \in at : i <= j
            IN  IF at = {} THEN [index |-> -1, text |-> <<>>]
                ELSE [index |-> first - 1,
                      text |-> run(Digits, slice(str, first - 1))]
      [] src = "\\s*" -> [index |-> 0, text |-> run(Spaces, str)]

stringParser(string, in, env, acc) ==
    LET success == startsWith(in, string)
    IN  IF env = NoEnv /\ success THEN Throw(in, env, acc)
        ELSE Result(success,
                    IF success THEN VStr(string) ELSE VUndef,
                    IF success THEN slice(in, Len(string)) ELSE in,
                    IF success THEN advance(env, string) ELSE env,
                    acc)

regexParser(regex, in, env, acc) ==
    LET res == regexExec(regex, in)
        success == res.index = 0
    IN  IF env = NoEnv /\ success THEN Throw(in, env, acc)
        ELSE Result(success,
                    IF success THEN VStr(res.text) ELSE VStr(<<>>),
                    IF success THEN slice(in, Len(res.text)) ELSE in,
                    IF success THEN advance(env, res.text) ELSE env,
                    acc)

(* terminal(parser) inside toParser: the terminal closure, or undefined *)
terminal(p) ==
    CASE p.k = "string" -> Node("stringParser", "", 0, p.s, <<>>)
      [] p.k = "regex" -> Node("regexParser", p.f, 0, <<>>, <<>>)
      [] OTHER -> Undefined

anyBody(in, env, acc) ==
    Result(Len(in) > 0,
           IF Len(in) > 0 THEN VStr(<<in[1]>>) ELSE VUndef,
           slice(in, 1), env, acc)

parseXBody(in, env, acc) ==
    Result(in # <<>> /\ in[1] = "x",
           VStr(IF in = <<>> THEN <<>> ELSE <<in[1]>>),
           slice(in, 1), env, acc)

----------------------------------------------------------------------------
(* Mapping functions *)

Falsy(v) ==
    \/ v.t = "undefined"
    \/ v.t = "string" /\ v.s = <<>>
    \/ v.t = "number" /\ v.s = <<"0">>

(* x[n] *)
Index(x, n) ==
    CASE x.t = "array" -> IF n + 1 \in 1..Len(x.l) THEN x.l[n + 1] ELSE VUndef
      [] x.t = "string" -> IF n + 1 \in 1..Len(x.s) THEN VStr(<<x.s[n + 1]>>) ELSE VUndef
      [] OTHER -> VUndef

(* ret[key] = value *)
SetKey(acc, key, v) ==
    IF \E i \in 1..Len(acc) : acc[i].l[1] = VStr(key)
    THEN [i \in 1..Len(acc) |->
            IF acc[i].l[1] = VStr(key) THEN VList(<<VStr(key), v>>) ELSE acc[i]]
    ELSE Append(acc, VList(<<VStr(key), v>>))

Min(a, b) == IF a < b THEN a ELSE b

(* whether f(x) throws: a property read or a destructuring of undefined *)
FnThrows(fn, x) ==
    CASE fn.f \in {"nth", "x[1]", "skip", "skipLast", "take", "takeLast"}
            -> x.t = "undefined"
      [] fn.f = "[a, ...b]" -> x.t = "undefined" \/ Index(x, 1).t # "array"
      [] OTHER -> FALSE

ApplyFn(fn, x) ==
    CASE fn.f = "Number" -> Number(x.s)
      [] fn.f = "const" -> VStr(fn.s)
      [] fn.f = "nth" -> Index(x, fn.n)
      [] fn.f = "x[1]" -> Index(x, 1)
      [] fn.f = "[a, ...b]" -> VList(<<Index(x, 0)>> \o Index(x, 1).l)
      [] fn.f = "x || []" -> IF Falsy(x) THEN VList(<<>>) ELSE x
      [] fn.f = "skip" -> VList(SubSeq(x.l, Min(fn.n, Len(x.l)) + 1, Len(x.l)))
      [] fn.f = "skipLast" ->
            IF fn.n = 0 THEN VList(<<>>)
            ELSE VList(SubSeq(x.l, 1, Len(x.l) - Min(fn.n, Len(x.l))))
      [] fn.f = "take" -> VList(SubSeq(x.l, 1, Min(fn.n, Len(x.l))))
      [] fn.f = "takeLast" -> VList(SubSeq(x.l, Len(x.l) - Min(fn.n, Len(x.l)) + 1, Len(x.l)))
      [] fn.f = "to" -> x
      [] OTHER -> x

TruncLength == 10

(* the template literal of expect *)
Message(env, expectation, in) ==
    <<"[">> \o decimal(envLine(env)) \o <<":">> \o decimal(envCol(env))
        \o <<"]", ":", " ", "E", "x", "p", "e", "c", "t", "e", "d", " ">>
        \o expectation \o <<",", " ", "g", "o", "t", " ", "\"">>
        \o trunc(in, TruncLength) \o <<"\"">>

----------------------------------------------------------------------------
(* Calling a parser: parser(input, env) *)

RECURSIVE Call(_, _, _, _)
RECURSIVE orBody(_, _, _, _, _)
RECURSIVE seqBody(_, _, _, _, _, _, _)
RECURSIVE manyBody(_, _, _, _, _)
RECURSIVE optBody(_, _, _, _)
RECURSIVE lazyManyBody(_, _, _, _, _, _, _)
RECURSIVE wrapBody(_, _, _, _)
RECURSIVE mapSeqBody(_, _, _, _)
RECURSIVE mapBody(_, _, _, _)
RECURSIVE expectBody(_, _, _, _)
RECURSIVE terminalsBody(_, _, _, _)
RECURSIVE toParserBody(_, _, _, _)

(* a slip: the last alternative's own result is returned when all fail *)
orBodyLastResult(parsers, i, in, env, acc) ==
    IF i > Len(parsers) THEN Result(FALSE, VUndef, in, env, acc)
    ELSE LET res == Call(parsers[i], in, env, acc)
             e == Thread(env, res.env)
         IN  IF res.exc # "none" \/ res.success \/ i = Len(parsers)
             THEN [res EXCEPT !.env = e]
             ELSE orBody(parsers, i + 1, in, e, res.acc)

(* the closure or returns: for (parser of parsers) ... *)
orBody(parsers, i, in, env, acc) ==
    IF i > Len(parsers) THEN Result(FALSE, VUndef, in, env, acc)
    ELSE LET res == Call(parsers[i], in, env, acc)
             e == Thread(env, res.env)
         IN  IF res.exc # "none" \/ res.success THEN [res EXCEPT !.env = e]
             ELSE orBody(parsers, i + 1, in, e, res.acc)

(* a slip: a failing sequence returns ret.rest, keeping what was consumed *)
seqBodyKeepsRest(parsers, i, in, vals, rest, env, acc) ==
    IF i > Len(parsers) THEN Result(TRUE, VList(vals), rest, env, acc)
    ELSE LET res == Call(parsers[i], rest, env, acc)
             e == Thread(env, res.env)
         IN  IF res.exc # "none" THEN [res EXCEPT !.env = e]
             ELSE IF ~res.success THEN Result(FALSE, res.value, rest, e, res.acc)
             ELSE seqBody(parsers, i + 1, in, Append(vals, res.value),
                          res.rest, e, res.acc)

(* a slip: a failing sequence drops the value of the parser that failed *)
seqBodyDropsValue(parsers, i, in, vals, rest, env, acc) ==
    IF i > Len(parsers) THEN Result(TRUE, VList(vals), rest, env, acc)
    ELSE LET res == Call(parsers[i], rest, env, acc)
             e == Thread(env, res.env)
         IN  IF res.exc # "none" THEN [res EXCEPT !.env = e]
             ELSE IF ~res.success THEN Result(FALSE, VUndef, in, e, res.acc)
             ELSE seqBody(parsers, i + 1, in, Append(vals, res.value),
                          res.rest, e, res.acc)

(* the closure seq returns; vals and rest are ret.value and ret.rest *)
seqBody(parsers, i, in, vals, rest, env, acc) ==
    IF i > Len(parsers) THEN Result(TRUE, VList(vals), rest, env, acc)
    ELSE LET res == Call(parsers[i], rest, env, acc)
             e == Thread(env, res.env)
         IN  IF res.exc # "none" THEN [res EXCEPT !.env = e]
             ELSE IF ~res.success THEN Result(FALSE, res.value, in, e, res.acc)
             ELSE seqBody(parsers, i + 1, in, Append(vals, res.value),
                          res.rest, e, res.acc)

(* the closure many returns: do { ... } while (result.success) *)
manyBody(p, vals, rest, env, acc) ==
    LET res == Call(p, rest, env, acc)
        e == Thread(env, res.env)
    IN  IF res.exc # "none" THEN [res EXCEPT !.env = e]
        ELSE IF ~res.success THEN Result(TRUE, VList(vals), res.rest, e, res.acc)
        ELSE IF Len(res.rest) >= Len(rest) THEN Diverge(rest, e, res.acc)
        ELSE manyBody(p, Append(vals, res.value), res.rest, e, res.acc)

optBody(p, in, env, acc) ==
    LET res == Call(p, in, env, acc)
        e == Thread(env, res.env)
    IN  IF res.exc # "none" THEN [res EXCEPT !.env = e]
        ELSE IF res.success THEN Result(TRUE, res.value, res.rest, e, res.acc)
        ELSE Result(TRUE, VUndef, in, e, res.acc)

(* a slip: after the loop stop is tried on ret.rest, not on the input *)
lazyManyBodyStopAtRest(p, stopParser, in, vals, rest, env, acc) ==
    LET res == Call(p, rest, env, acc)
        e1 == Thread(env, res.env)
        stopResult == Call(stopParser, res.rest, e1, res.acc)
        e2 == Thread(e1, stopResult.env)
    IN  IF res.exc # "none" THEN [res EXCEPT !.env = e1]
        ELSE IF stopResult.exc # "none" THEN [stopResult EXCEPT !.env = e2]
        ELSE IF res.success /\ stopResult.success
             THEN Result(TRUE, VList(vals \o <<res.value, stopResult.value>>),
                         rest, e2, stopResult.acc)
        ELSE IF ~res.success
             THEN LET last == Call(stopParser, res.rest, e2, stopResult.acc)
                  IN  [last EXCEPT !.env = Thread(e2, last.env)]
        ELSE IF Len(res.rest) >= Len(rest) THEN Diverge(rest, e2, stopResult.acc)
        ELSE lazyManyBody(p, stopParser, in, Append(vals, res.value), res.rest,
                          e2, stopResult.acc)

(* the closure lazyMany returns; vals and rest are ret.value and ret.rest *)
lazyManyBody(p, stopParser, in, vals, rest, env, acc) ==
    LET res == Call(p, rest, env, acc)
        e1 == Thread(env, res.env)
        stopResult == Call(stopParser, res.rest, e1, res.acc)
        e2 == Thread(e1, stopResult.env)
    IN  IF res.exc # "none" THEN [res EXCEPT !.env = e1]
        ELSE IF stopResult.exc # "none" THEN [stopResult EXCEPT !.env = e2]
        ELSE IF res.success /\ stopResult.success
             THEN Result(TRUE, VList(vals \o <<res.value, stopResult.value>>),
                         rest, e2, stopResult.acc)
        ELSE IF ~res.success
             THEN LET last == Call(stopParser, in, e2, stopResult.acc)
                  IN  [last EXCEPT !.env = Thread(e2, last.env)]
        ELSE IF Len(res.rest) >= Len(rest) THEN Diverge(rest, e2, stopResult.acc)
        ELSE lazyManyBody(p, stopParser, in, Append(vals, res.value), res.rest,
                          e2, stopResult.acc)

(* the closure wrap returns builds its seq on every call *)
wrapBody(ps, in, env, acc) ==
    LET q == mapNth(seq(<<ps[1], ps[3], ps[2]>>), 1)
    IN  IF Threw(q) THEN Throw(in, env, acc)
        ELSE LET res == Call(q, in, env, acc)
             IN  [res EXCEPT !.env = Thread(env, res.env)]

(* the closure mapSeq returns: ret is a fresh object on every call *)
mapSeqBody(elems, in, env, acc) ==
    LET q == seq(elems)
    IN  IF Threw(q) THEN Throw(in, env, acc)
        ELSE LET res == Call(q, in, env, NoAcc)
             IN  IF res.exc # "none"
                 THEN [res EXCEPT !.env = Thread(env, res.env), !.acc = acc]
                 ELSE [res EXCEPT !.env = Thread(env, res.env), !.acc = acc,
                                  !.value = VObj(res.acc)]

(* the closure map returns; m is the map node *)
mapBody(m, in, env, acc) ==
    LET res == Call(m.ps[1], in, env, acc)
        e == Thread(env, res.env)
        fn == Fn(m.f, m.n, m.s)
    IN  IF res.exc # "none" \/ ~res.success THEN [res EXCEPT !.env = e]
        ELSE IF FnThrows(fn, res.value) THEN Throw(in, e, res.acc)
        ELSE [res EXCEPT !.env = e,
                         !.value = ApplyFn(fn, res.value),
                         !.acc = IF fn.f = "to" THEN SetKey(res.acc, fn.s, res.value)
                                 ELSE res.acc]

expectBody(m, in, env, acc) ==
    LET res == Call(m.ps[1], in, env, acc)
        e == Thread(env, res.env)
    IN  IF res.exc # "none" \/ res.success THEN [res EXCEPT !.env = e]
        ELSE IF e = NoEnv THEN Throw(in, e, res.acc)
        ELSE Result(FALSE, VStr(Message(e, m.s, in)), in, e, res.acc)

(* terminals(f)(parser): (input, env) => parser(input, environment(env, ...)) *)
terminalsBody(ps, in, env, acc) ==
    LET res == Call(ps[2], in, environment(env, ps[1]), acc)
    IN  [res EXCEPT !.env = IF env = NoEnv \/ res.env = NoEnv THEN res.env
                            ELSE SubSeq(res.env, 1, Len(env))]

(* the closure f(parser) of toParser *)
toParserBody(p, in, env, acc) ==
    LET term == terminal(p)
        env1 == IF env = NoEnv THEN environment(NoEnv, Absent) ELSE env
    IN  IF term.k # "undefined"
        THEN IF envTerminals(env1).k # "undefined"
             THEN LET res == Call(ApplyWrapper(envTerminals(env1), term), in,
                                  environment(env1, Undefined), acc)
                  IN  [res EXCEPT !.env = env1]
             ELSE Call(term, in, env1, acc)
        ELSE Call(p, in, env1, acc)

Call(p, in, env, acc) ==
    CASE p.k = "W" -> toParserBody(p.ps[1], in, env, acc)
      [] p.k = "orFn" -> orBody(p.ps, 1, in, env, acc)
      [] p.k = "seqFn" -> seqBody(p.ps, 1, in, <<>>, in, env, acc)
      [] p.k = "manyFn" -> manyBody(p.ps[1], <<>>, in, env, acc)
      [] p.k = "optFn" -> optBody(p.ps[1], in, env, acc)
      [] p.k = "lazyManyFn" -> lazyManyBody(p.ps[1], p.ps[2], in, <<>>, in, env, acc)
      [] p.k = "wrapFn" -> wrapBody(p.ps, in, env, acc)
      [] p.k = "mapSeqFn" -> mapSeqBody(p.ps, in, env, acc)
      [] p.k = "mapFn" -> mapBody(p, in, env, acc)
      [] p.k = "expectFn" -> expectBody(p, in, env, acc)
      [] p.k = "terminalsFn" -> terminalsBody(p.ps, in, env, acc)
      [] p.k = "stringParser" -> stringParser(p.s, in, env, acc)
      [] p.k = "regexParser" -> regexParser(p.f, in, env, acc)
      [] p.k = "any" -> anyBody(in, env, acc)
      [] p.k = "parseX" -> parseXBody(in, env, acc)
      [] OTHER -> Throw(in, env, acc)

----------------------------------------------------------------------------
(* The grammars and inputs the calls are drawn from *)

Strings(chars, n) == UNION {[1..k -> chars] : k \in 0..n}

Sigma == {"a", "x", "1", " "}

W(p) == toParser(<<p>>)

Case(o, a, in) == [op |-> o, args |-> a, input |-> in]

SeqChars == {"a", "x", "1"}

SeqArgs ==
    {Str(<<"a">>), parseX, integer, opt(Str(<<"a">>)), expect(digit, <<"d">>),
     whitespace}

SeqCases ==
    {Case("seq", <<a, b>>, in) :
        a \in SeqArgs, b \in SeqArgs, in \in Strings(SeqChars, MaxLen)}

OrArgs ==
    {Str(<<"a">>), Str(<<"a", "x">>), parseX, expect(digit, <<"d">>),
     Array(<<Str(<<"a">>), Str(<<"x">>)>>)}

OrArgs3 == {Str(<<"a">>), parseX}

OrCases ==
    {Case("or", <<a, b>>, in) :
        a \in OrArgs, b \in OrArgs, in \in Strings(SeqChars, MaxLen)}
    \cup {Case("or", <<a, b, c>>, in) :
            a \in OrArgs3, b \in OrArgs3, c \in OrArgs3,
            in \in Strings(SeqChars, MaxLen)}

ManyArgs ==
    {W(Str(<<"a">>)), parseX, any, digit, integer, whitespace, Str(<<"a">>),
     W(Array(<<Str(<<"a">>), Str(<<"x">>)>>)), Undefined}

ManyCases == {Case("many", <<a>>, in) : a \in ManyArgs, in \in Strings(Sigma, MaxLen)}

OptArgs ==
    {Str(<<"a">>), parseX, any, Regex("[0-9]+"), Undefined,
     Array(<<Str(<<"a">>), Str(<<"x">>)>>)}

OptCases == {Case("opt", <<a>>, in) : a \in OptArgs, in \in Strings(Sigma, MaxLen)}

Quote == "\""

LazyChars == {"a", "1", Quote}

LazyCases ==
    {Case("lazyMany", <<a, stop>>, in) :
        a \in {any, Str(<<"a">>), Regex("[0-9]"), Undefined},
        stop \in {Str(<<Quote>>), Str(<<"a">>), Str(<<"a", Quote>>), Undefined},
        in \in Strings(LazyChars, MaxLen)}
    \cup {Case("lazyMany", <<any, Str(<<Quote>>)>>, <<"a", "b", "c", Quote, Quote>>)}

(* list: args are the element parser, the separator parser, the text of   *)
(* the separator and the texts of the n elements; input is their join     *)
ListChars == {"1", "a", ",", " "}

Matches(p, text) ==
    LET r == Call(W(p), text, NoEnv, NoAcc)
    IN  r.exc = "none" /\ r.success /\ r.rest = <<>>

RECURSIVE Join(_, _)
Join(texts, sep) ==
    IF texts = <<>> THEN <<>>
    ELSE IF Len(texts) = 1 THEN texts[1]
    ELSE texts[1] \o sep \o Join(Tail(texts), sep)

ListElems ==
    {integer, Regex("[0-9]"), Str(<<"a">>), whitespace,
     Array(<<Str(<<"a">>), opt(Str(<<",">>))>>)}

ListSeps == {Str(<<",">>), whitespace, Str(<<"1">>)}

(* the texts of at most n characters that p matches entirely *)
Texts(p, n) == {text \in Strings(ListChars, n) : Matches(p, text)}

ListCases ==
    UNION {
        {Case("list", <<e, s, Str(st)>> \o [k \in 1..Len(texts) |-> Str(texts[k])],
              Join(texts, st)) :
            st \in Texts(s, 1), texts \in Strings(Texts(e, MaxText), MaxN)} :
        e \in ListElems, s \in ListSeps}

WrapCases ==
    {Case("wrap", a, in) :
        a \in {<<Str(<<"x">>), Str(<<"x">>), integer>>,
               <<Str(<<"x">>), any, Undefined>>,
               <<Str(<<"a">>), Str(<<"x">>), many(W(Str(<<"1">>)))>>,
               <<W(Str(<<"a">>)), W(Str(<<"x">>)), any>>,
               <<Str(<<"x">>), Undefined, Undefined>>,
               <<Undefined, Str(<<"x">>), any>>},
        in \in Strings(Sigma, MaxLen)}

SkipCases ==
    {Case("skip", <<ig, a>>, in) :
        ig \in {whitespace, Str(<<" ">>), Undefined},
        a \in {Str(<<"a">>), integer, Undefined},
        in \in Strings(Sigma, MaxLen)}

ExpectCases ==
    {Case("expect", <<a, Str(<<"d">>)>>, in) :
        a \in {integer, digit, W(Str(<<"a">>)), parseX, Str(<<"a">>), Undefined,
               W(Array(<<Str(<<"a">>), Str(<<"x">>)>>))},
        in \in Strings(Sigma, MaxLen)}

MapSeqCases ==
    {Case("mapSeq", a, in) :
        a \in {<<Str(<<"a">>), map(W(Str(<<"x">>)), Fn("to", 0, <<"k">>))>>,
               <<map(integer, Fn("to", 0, <<"n">>)), Str(<<" ">>),
                 map(W(Str(<<"a">>)), Fn("to", 0, <<"k">>))>>,
               <<Str(<<"a">>), Undefined>>,
               <<or(<<Array(<<map(W(Str(<<"a">>)), Fn("to", 0, <<"k">>)), Str(<<"x">>)>>),
                      Str(<<"a">>)>>),
                 map(integer, Fn("to", 0, <<"n">>))>>,
               <<many(W(Array(<<map(W(any), Fn("to", 0, <<"k">>)), Str(<<"x">>)>>))),
                 any>>},
        in \in Strings(Sigma, MaxLen)}

(* terminals: args are the wrapping function and the parser *)
TermChars == {"a", "x", " ", NL}

TerminalsCases ==
    {Case("terminals", <<f, a>>, in) :
        f \in {SkipFn(whitespace), SkipFn(Str(<<" ">>)), WFn},
        a \in {W(Array(<<Str(<<"a">>), Str(<<"x">>)>>)),
               W(Array(<<Str(<<"a">>), expect(W(Str(<<"x">>)), <<"x">>)>>)),
               or(<<Str(<<"a">>), Str(<<"x">>)>>),
               many(W(Str(<<"a">>))),
               list(Str(<<"a">>), Str(<<"x">>)),
               wrap(Str(<<"x">>), Str(<<"x">>), opt(Str(<<"a">>)))},
        in \in Strings(TermChars, MaxLen)}

(* W(...): plain shorthands, the multiple-argument form, and the error    *)
(* message grammars W([prefix, expect(integer, 'integer'), suffix])       *)
Integer == <<"i", "n", "t", "e", "g", "e", "r">>

ErrGrammar(prefix, suffix) ==
    Array(<<Str(prefix), expect(integer, Integer), Str(suffix)>>)

ErrPrefixes == {<<"a">>, <<NL, "a">>, <<"a", NL>>, <<NL, NL>>, <<"a", "a">>}

ToParserCases ==
    {Case("toParser", <<a>>, in) :
        a \in {Str(<<"a">>), Regex("[0-9]+"), parseX, any, Undefined,
               Array(<<Str(<<"a">>), Str(<<"x">>)>>)},
        in \in Strings(Sigma, MaxLen)}
    \cup {Case("toParser", <<Str(<<"a">>), Str(<<"x">>), Regex("[0-9]")>>, in) :
            in \in Strings(Sigma, MaxLen)}
    \cup {Case("toParser", <<ErrGrammar(pre, <<"c">>)>>, pre \o tail) :
            pre \in ErrPrefixes, tail \in Strings({"c", "1", NL}, MaxLen)}
    \cup {Case("toParser", <<ErrGrammar(<<"f", "o", "o">>, <<"b", "a", "r">>)>>, in) :
            in \in {<<"f", "o", "o", "f", "o", "o", "b", "a", "r">>,
                    <<"f", "o", "o", "1", "b", "a", "r">>,
                    <<"f", "o", "o", "f", "o", "o", "b", "a", "r", "b", "a", "z">>}}

(* grammars over lines: alternatives, iterations and optional parts that   *)
(* match a newline before they fail                                       *)
LineChars == {"a", "x", NL}

LineArgs ==
    {Case("or", <<Array(<<Str(<<NL>>), Str(<<"a">>)>>),
                  Array(<<Str(<<NL>>), Str(<<"x">>)>>)>>, <<>>),
     Case("or", <<Str(<<NL, "a">>), Str(<<NL, "x">>)>>, <<>>),
     Case("seq", <<Str(<<NL>>), Str(<<"x">>)>>, <<>>),
     Case("seq", <<many(W(Array(<<Str(<<NL>>), Str(<<"a">>)>>))), Str(<<NL>>)>>, <<>>),
     Case("seq", <<opt(Array(<<Str(<<NL>>), Str(<<"a">>)>>)), Str(<<NL, "x">>)>>, <<>>),
     Case("many", <<W(Array(<<Str(<<NL>>), Str(<<"a">>)>>))>>, <<>>),
     Case("many", <<W(Str(<<NL>>))>>, <<>>),
     Case("opt", <<Array(<<Str(<<NL>>), Str(<<"a">>)>>)>>, <<>>)}

LineCases ==
    {Case(c.op, c.args, in) : c \in LineArgs, in \in Strings(LineChars, MaxLen)}

Cases ==
    SeqCases \cup OrCases \cup ManyCases \cup OptCases \cup LazyCases
    \cup ListCases \cup WrapCases \cup SkipCases \cup ExpectCases
    \cup MapSeqCases \cup TerminalsCases \cup ToParserCases \cup LineCases

----------------------------------------------------------------------------
(* The state machine: a grammar author constructs a parser from shorthand  *)
(* arguments, then calls it on an input without an environment.            *)

Pending ==
    [success |-> FALSE, value |-> VUndef, rest |-> <<>>,
     env |-> NoEnv, acc |-> NoAcc, exc |-> "pending"]

Init ==
    /\ parser = Undefined
    /\ result = Pending
    /\ second = [input |-> <<>>, result |-> Pending]
    /\ pc = "start"
    /\ \E c \in Cases :
          /\ op = c.op
          /\ args = c.args
          /\ input = c.input

Built(p) ==
    /\ parser' = p
    /\ pc' = IF Threw(p) THEN "threw" ELSE "built"
    /\ UNCHANGED <<op, args, input, result, second>>

ConstructToParser == pc = "start" /\ op = "toParser" /\ Built(toParser(args))

ConstructOr == pc = "start" /\ op = "or" /\ Built(or(args))

ConstructSeq == pc = "start" /\ op = "seq" /\ Built(seq(args))

ConstructMany == pc = "start" /\ op = "many" /\ Built(many(args[1]))

ConstructOpt == pc = "start" /\ op = "opt" /\ Built(opt(args[1]))

ConstructList == pc = "start" /\ op = "list" /\ Built(list(args[1], args[2]))

ConstructLazyMany ==
    pc = "start" /\ op = "lazyMany" /\ Built(lazyMany(args[1], args[2]))

ConstructWrap ==
    pc = "start" /\ op = "wrap" /\ Built(wrap(args[1], args[2], args[3]))

ConstructSkip == pc = "start" /\ op = "skip" /\ Built(skip(args[1], args[2]))

ConstructExpect == pc = "start" /\ op = "expect" /\ Built(expect(args[1], args[2].s))

ConstructMapSeq == pc = "start" /\ op = "mapSeq" /\ Built(mapSeq(args))

ConstructTerminals ==
    pc = "start" /\ op = "terminals" /\ Built(terminals(args[1], args[2]))

Invoke ==
    /\ pc = "built"
    /\ result' = Call(parser, input, NoEnv, NoAcc)
    /\ pc' = "done"
    /\ UNCHANGED <<op, args, input, parser, second>>

(* a second top-level call of the same parser, again without environment,  *)
(* on the same input or on another one                                     *)
SecondInputs == {input, <<NL>> \o input, <<"a">> \o input}

InvokeAgain ==
    /\ pc = "done"
    /\ op \in {"toParser", "terminals", "mapSeq"}
    /\ \E in \in SecondInputs :
          second' = [input |-> in, result |-> Call(parser, in, NoEnv, NoAcc)]
    /\ pc' = "again"
    /\ UNCHANGED <<op, args, input, parser, result>>

Next ==
    \/ ConstructToParser
    \/ ConstructOr
    \/ ConstructSeq
    \/ ConstructMany
    \/ ConstructOpt
    \/ ConstructList
    \/ ConstructLazyMany
    \/ ConstructWrap
    \/ ConstructSkip
    \/ ConstructExpect
    \/ ConstructMapSeq
    \/ ConstructTerminals
    \/ Invoke
    \/ InvokeAgain

Spec == Init /\ [][Next]_vars

Done(o) == pc = "done" /\ op = o
Returned == result.exc = "none"
View(r) == <<r.success, r.value, r.rest>>
FreshEnv == environment(NoEnv, Absent)

----------------------------------------------------------------------------
(* C1: seq(a,b)(i) succeeds iff a succeeds on i and b succeeds on the rest *)
(* a returned; on success its value is [value of a, value of b] and its    *)
(* rest is b's rest; on failure success=false and rest is i; so isSuccess  *)
(* holds only when the two matches consume all of i.                       *)
C1_Seq ==
    Done("seq") =>
        LET ra == Call(W(args[1]), input, NoEnv, NoAcc)
            rb == Call(W(args[2]), ra.rest, ra.env, NoAcc)
        IN  (ra.exc = "none" /\ (ra.success => rb.exc = "none")) =>
              /\ Returned
              /\ result.success <=> (ra.success /\ rb.success)
              /\ result.success =>
                    /\ result.value = VList(<<ra.value, rb.value>>)
                    /\ result.rest = rb.rest
              /\ ~result.success => result.rest = input
              /\ isSuccess(result) <=> (ra.success /\ rb.success /\ rb.rest = <<>>)

C1_Witness ==
    /\ Done("seq")
    /\ args = <<parseX, Str(<<"a">>)>>
    /\ input = <<"x", "x">>
    /\ ~result.success
    /\ result.rest = input

(* the leftmost of ps[k..] that succeeds on in, each applied to the same in *)
RECURSIVE Leftmost(_, _, _, _)
Leftmost(ps, k, in, env) ==
    IF k > Len(ps) THEN Result(FALSE, VUndef, in, env, NoAcc)
    ELSE LET r == Call(W(ps[k]), in, env, NoAcc)
         IN  IF r.success \/ r.exc # "none" THEN r ELSE Leftmost(ps, k + 1, in, r.env)

(* C2: or(p1..pn)(i) returns, unmodified, the result of the leftmost pk    *)
(* that succeeds on the same input i; if none succeeds the result is       *)
(* {success: false, value: undefined, rest: i}.                            *)
C2_Or ==
    Done("or") =>
        LET ref == Leftmost(args, 1, input, FreshEnv)
        IN  /\ result.exc = ref.exc
            /\ Returned => View(result) = View(ref)
            /\ (Returned /\ ~result.success) => View(result) = <<FALSE, VUndef, input>>

C2_Witness ==
    /\ Done("or")
    /\ args = <<parseX, Str(<<"a">>), parseX>>
    /\ input = <<"a", "x">>
    /\ View(result) = <<TRUE, VStr(<<"a">>), <<"x">>>>

(* the maximal run of consecutive successful applications of p from rest:  *)
(* the values, and the rest the last successful application returned       *)
RECURSIVE ManyRun(_, _, _, _)
ManyRun(p, vals, rest, env) ==
    LET r == Call(p, rest, env, NoAcc)
    IN  IF r.exc = "none" /\ r.success /\ Len(r.rest) < Len(rest)
        THEN ManyRun(p, Append(vals, r.value), r.rest, r.env)
        ELSE [vals |-> vals, rest |-> rest, ended |-> r.exc = "none" /\ ~r.success]

(* C3: for p whose successes consume at least one character (a user        *)
(* function such as parseX included), many(p)(i) succeeds, its value is    *)
(* the list of values of the maximal run of successful applications and    *)
(* its rest is the rest of the last successful application (i when there   *)
(* was none): nothing the final failed attempt reports is consumed.        *)
C3_ManyRest ==
    Done("many") =>
        LET ref == ManyRun(parser.ps[1].ps[1], <<>>, input, FreshEnv)
        IN  ref.ended =>
              /\ Returned
              /\ View(result) = <<TRUE, VList(ref.vals), ref.rest>>

(* list: the element texts, the separator text, and the joined text from  *)
(* the k-th element on and from just behind the k-th element on           *)
ListTexts == [k \in 1..(Len(args) - 3) |-> args[k + 3].s]
SepText == args[3].s
FromElem(k) == Join(SubSeq(ListTexts, k, Len(ListTexts)), SepText)
AfterElem(k) == slice(FromElem(k), Len(ListTexts[k]))
Apply(p, in) == Call(W(p), in, NoEnv, NoAcc)

(* C4 as stated: for every p, sep and n >= 0, list(p, sep) on the join of  *)
(* n texts p matches with a text sep matches returns success, exactly the  *)
(* n values of p in order, and rest '' (checked on the calls that return). *)
C4_RoundTrip ==
    (Done("list") /\ Returned) =>
        View(result) =
              <<TRUE,
                VList([k \in 1..Len(ListTexts) |-> Apply(args[1], ListTexts[k]).value]),
                <<>>>>

(* no match runs past its boundary in the joined text, and p needs input *)
Unambiguous ==
    /\ ~Apply(args[1], <<>>).success
    /\ \A k \in 1..Len(ListTexts) : Apply(args[1], FromElem(k)).rest = AfterElem(k)
    /\ \A k \in 1..(Len(ListTexts) - 1) :
          LET r == Apply(args[2], AfterElem(k))
          IN  r.success /\ r.rest = FromElem(k + 1)

(* C4 amended: the round trip of list holds when p fails on the empty      *)
(* string and, in the joined text, p applied at the start of each element  *)
(* consumes exactly that element and sep applied at the start of each      *)
(* separator consumes exactly that separator: then list returns success,   *)
(* the n values p produces for the elements in order, and rest ''.         *)
C4_RoundTripUnambiguous ==
    (Done("list") /\ Unambiguous) =>
        /\ Returned
        /\ View(result) =
              <<TRUE,
                VList([k \in 1..Len(ListTexts) |-> Apply(args[1], FromElem(k)).value]),
                <<>>>>

C4_Witness ==
    /\ Done("list")
    /\ Unambiguous
    /\ args[1] = integer
    /\ input = <<"1", "1", ",", "1", ",", "1", "1">>
    /\ View(result) = <<TRUE, VList(<<VNum(<<"1", "1">>), VNum(<<"1">>), VNum(<<"1", "1">>)>>), <<>>>>

RECURSIVE UsesUserFunction(_)
UsesUserFunction(p) ==
    p.k = "parseX" \/ \E i \in 1..Len(p.ps) : UsesUserFunction(p.ps[i])

(* C5: failure never consumes: a parser built from the built-in primitives *)
(* and the combinators, whenever it returns success=false, returns rest    *)
(* equal to its input.                                                     *)
C5_FailureNeverConsumes ==
    (pc = "done" /\ Returned /\ ~UsesUserFunction(parser) /\ ~result.success)
        => result.rest = input

C5_Witness ==
    /\ Done("lazyMany")
    /\ args = <<any, Str(<<Quote>>)>>
    /\ input = <<"a", "1", "a">>
    /\ Returned
    /\ ~result.success
    /\ result.rest = input

(* the diagnostic "[L:C]: Expected d, got \"<input truncated>\"" *)
Expected(L, C, d, got) ==
    <<"[">> \o decimal(L) \o <<":">> \o decimal(C) \o <<"]", ":", " ">>
        \o <<"E", "x", "p", "e", "c", "t", "e", "d", " ">> \o d
        \o <<",", " ", "g", "o", "t", " ", Quote>>
        \o (IF Len(got) <= 10 THEN got ELSE SubSeq(got, 1, 7) \o <<".", ".", ".">>)
        \o <<Quote>>

(* the runs of W([prefix, expect(p, d), suffix]) on prefix \o rest *)
ErrCase ==
    /\ pc = "done"
    /\ op = "toParser"
    /\ Len(args) = 1
    /\ args[1].k = "array"
Prefix == args[1].ps[1].s
Expectation == args[1].ps[2].ps[1].s
Inner == args[1].ps[2].ps[1].ps[1]
BehindPrefix == slice(input, Len(Prefix))
InnerFails == ErrCase /\ Len(args[1].ps) = 3 /\ ~Apply(Inner, BehindPrefix).success

Callable(p) == p.k \in {"W", "any", "parseX"}

(* C6: expect(p, d) returns p's result unchanged when p succeeds; when p   *)
(* fails on i it returns success=false, rest=i and the diagnostic with the *)
(* environment's line and column at that moment, after every primitive     *)
(* match that succeeded earlier in the run; an enclosing seq that fails    *)
(* because of it carries the string as its own value.                      *)
C6_Expect ==
    /\ (Done("expect") /\ Callable(args[1])) =>
          LET rp == Call(args[1], input, FreshEnv, NoAcc)
          IN  /\ Returned
              /\ rp.success => View(result) = View(rp)
              /\ ~rp.success =>
                    View(result) =
                        <<FALSE,
                          VStr(Expected(envLine(rp.env), envCol(rp.env), args[2].s, input)),
                          input>>
    /\ InnerFails =>
          /\ Returned
          /\ envLine(result.env) = 1 + newlines(Prefix)
          /\ View(result) =
                <<FALSE,
                  VStr(Expected(1 + newlines(Prefix), envCol(result.env),
                                Expectation, BehindPrefix)),
                  input>>

C6_Witness ==
    /\ InnerFails
    /\ Prefix = <<NL, "a">>
    /\ input = <<NL, "a", "c", "c">>
    /\ result.value =
          VStr(<<"[", "2", ":", "2", "]", ":", " ", "E", "x", "p", "e", "c", "t",
                 "e", "d", " ", "i", "n", "t", "e", "g", "e", "r", ",", " ",
                 "g", "o", "t", " ", Quote, "c", "c", Quote>>)

(* the column the specification gives after consuming text at column col *)
ClaimedCol(col, text) ==
    IF lastIndexOf(text) = -1 THEN col + Len(text)
    ELSE Len(text) - lastIndexOf(text)

(* C7: advance(consumedText): without a newline col increases by the       *)
(* length of consumedText; with one, line increases by the number of       *)
(* newlines and col becomes (characters after the last newline) + 1; so    *)
(* W(['foo', expect(integer,'integer'), 'bar'])('foofoobar') yields        *)
(* '[1:4]: Expected integer, got "foobar"'.                                *)
C7_Column ==
    InnerFails =>
        result.value =
            VStr(Expected(1 + newlines(Prefix), ClaimedCol(1, Prefix),
                          Expectation, BehindPrefix))

(* P with each string/regex primitive t replaced by f(t), by hand *)
RECURSIVE HandWrap(_, _)
HandWrap(f, p) ==
    IF p.k \in {"string", "regex"} THEN ApplyWrapper(f, p)
    ELSE IF p.k = "W" /\ p.ps[1].k \in {"string", "regex"} THEN ApplyWrapper(f, p.ps[1])
    ELSE [p EXCEPT !.ps = [i \in 1..Len(p.ps) |-> HandWrap(f, p.ps[i])]]

(* C8: terminals(wrapFn)(P)(i) returns the same success, value and rest    *)
(* as P with each string/regex primitive t replaced by wrapFn(t), the      *)
(* primitives of wrapFn's own parser running unwrapped.                    *)
C8_TerminalsEquivalence ==
    Done("terminals") =>
        LET hand == Call(HandWrap(args[1], args[2]), input, NoEnv, NoAcc)
        IN  /\ result.exc = hand.exc
            /\ Returned => View(result) = View(hand)

(* lazyMany as specified: stop is tried on the remainder before each       *)
(* application of p                                                        *)
RECURSIVE LazySpec(_, _, _, _)
LazySpec(p, stop, vals, rest) ==
    LET s == Apply(stop, rest)
        r == Apply(p, rest)
    IN  IF s.success
        THEN [found |-> TRUE, vals |-> Append(vals, s.value), rest |-> s.rest]
        ELSE IF r.success /\ Len(r.rest) < Len(rest)
        THEN LazySpec(p, stop, Append(vals, r.value), r.rest)
        ELSE [found |-> FALSE, vals |-> vals, rest |-> rest]

(* C9: lazyMany(p, stop)(i) checks stop against the remainder before each  *)
(* application of p: p is never applied where stop matches, and the value  *)
(* is the list of p's values for the positions before the first one where  *)
(* stop matches, followed by the value of that stop match; when stop       *)
(* matches at the start of i the list holds only stop's value.             *)
C9_LazyManyStopFirst ==
    (Done("lazyMany") /\ Returned) =>
        LET ref == LazySpec(args[1], args[2], <<>>, input)
        IN  ref.found => (result.success /\ result.value = VList(ref.vals))

(* the arguments of a combinator that stand for parsers *)
ParserArgs ==
    CASE op \in {"or", "seq"} -> args
      [] op \in {"many", "opt", "expect"} -> <<args[1]>>
      [] op \in {"list", "lazyMany", "skip"} -> <<args[1], args[2]>>
      [] op = "wrap" -> IF args[3].k = "undefined" THEN <<args[1], args[2]>> ELSE args
      [] OTHER -> <<>>

PassesUndefined == \E i \in 1..Len(ParserArgs) : ParserArgs[i].k = "undefined"

(* C10: or, seq, many, opt, list, lazyMany, wrap, skip and expect accept a *)
(* ParserShorthand in each parser position and normalize it at             *)
(* construction: a shorthand yields a working parser, undefined raises the *)
(* TypeError at construction, and no call of a constructed parser throws.  *)
C10_Shorthands ==
    op \in {"or", "seq", "many", "opt", "list", "lazyMany", "wrap", "skip", "expect"} =>
        /\ ~PassesUndefined => (pc # "threw" /\ result.exc # "TypeError")
        /\ PassesUndefined => pc \in {"start", "threw"}
        /\ pc = "done" => result.exc # "TypeError"

(* the captures of the successful parse of p on in, added to acc: the keys  *)
(* of the tagged parsers on the path of the parse that succeeded; an        *)
(* attempt that failed contributes nothing                                  *)
RECURSIVE Captured(_, _, _)
RECURSIVE CapturedSeq(_, _, _, _)
RECURSIVE CapturedMany(_, _, _)

Captured(p, in, acc) ==
    LET r == Call(p, in, FreshEnv, NoAcc)
    IN  IF ~r.success THEN acc
        ELSE CASE p.k = "W" /\ p.ps[1].k \in {"string", "regex"} -> acc
               [] p.k = "W" -> Captured(p.ps[1], in, acc)
               [] p.k = "mapFn" ->
                    LET a == Captured(p.ps[1], in, acc)
                    IN  IF p.f = "to"
                        THEN SetKey(a, p.s, Call(p.ps[1], in, FreshEnv, NoAcc).value)
                        ELSE a
               [] p.k = "seqFn" -> CapturedSeq(p.ps, 1, in, acc)
               [] p.k = "orFn" ->
                    LET i == CHOOSE i \in 1..Len(p.ps) :
                                /\ Call(p.ps[i], in, FreshEnv, NoAcc).success
                                /\ \A j \in 1..(i - 1) :
                                      ~Call(p.ps[j], in, FreshEnv, NoAcc).success
                    IN  Captured(p.ps[i], in, acc)
               [] p.k = "manyFn" -> CapturedMany(p.ps[1], in, acc)
               [] p.k = "optFn" -> Captured(p.ps[1], in, acc)
               [] OTHER -> acc

CapturedSeq(ps, i, in, acc) ==
    IF i > Len(ps) THEN acc
    ELSE CapturedSeq(ps, i + 1, Call(ps[i], in, FreshEnv, NoAcc).rest,
                     Captured(ps[i], in, acc))

CapturedMany(p, in, acc) ==
    LET r == Call(p, in, FreshEnv, NoAcc)
    IN  IF ~r.success \/ Len(r.rest) >= Len(in) THEN acc
        ELSE CapturedMany(p, r.rest, Captured(p, in, acc))

(* a mapping as the set of its key/value pairs *)
Pairs(l) == {l[i] : i \in 1..Len(l)}

(* C11: when mapSeq succeeds its value holds exactly the keys of the tagged *)
(* parsers that matched as part of the successful parse, each bound to the  *)
(* value of that match; nothing written inside an attempt that was later    *)
(* abandoned (a failed alternative of or, a failed last iteration of many)  *)
(* appears in it.                                                           *)
C11_MapSeqCaptures ==
    (Done("mapSeq") /\ Returned /\ result.success) =>
        /\ result.value.t = "object"
        /\ Pairs(result.value.l) = Pairs(Captured(seq(args), input, <<>>))

(* the part of the input in front of the remainder r *)
Consumed(r) == SubSeq(input, 1, Len(input) - Len(r))

(* C12: position tracking stays correct under backtracking: in a run of a  *)
(* parser built from string/regex primitives with or, seq, many and opt    *)
(* (no terminals installed), line is 1 plus the number of newlines in the  *)
(* part of the input in front of the remainder, also after an alternative, *)
(* an iteration or an optional part matched some primitives and was        *)
(* discarded. Stated at the end of the runs that succeed.                  *)
C12_LineUnderBacktracking ==
    (pc = "done" /\ op \in {"or", "seq", "many", "opt"}
       /\ Returned /\ result.success) =>
        envLine(result.env) = 1 + newlines(Consumed(result.rest))

(* terminals(wrapFn)(W(['a', expect('x', 'x')])): the token in front of the *)
(* expect, wrapped by hand, and the runs in which the expect fails behind  *)
(* it                                                                      *)
TokenThenExpect == W(Array(<<Str(<<"a">>), expect(W(Str(<<"x">>)), <<"x">>)>>))
Token == Call(ApplyWrapper(args[1], Str(<<"a">>)), input, NoEnv, NoAcc)

ExpectFailsBehindToken ==
    /\ Done("terminals")
    /\ args[2] = TokenThenExpect
    /\ Returned
    /\ Token.success
    /\ ~result.success

(* C13: all parsers of one run observe one shared position: the advance a  *)
(* primitive performs through the child environments of terminals is seen  *)
(* by the parsers invoked later with the enclosing environment, so an      *)
(* expect behind tokens matched under terminals(skip(whitespace)) reports  *)
(* the line reached after those tokens.                                    *)
C13_SharedPosition ==
    ExpectFailsBehindToken =>
        /\ result.value.t = "string"
        /\ startsWith(result.value.s,
                      <<"[">> \o decimal(1 + newlines(Consumed(Token.rest))) \o <<":">>)

(* the number of characters of a list of matched texts *)
RECURSIVE TextLength(_)
TextLength(l) == IF l = <<>> THEN 0 ELSE Len(Head(l).s) + TextLength(Tail(l))

(* C14: when lazyMany(p, stop)(i) succeeds by reaching a stop match, its    *)
(* rest is i shortened by exactly the text consumed by the applications of *)
(* p and by the stop match whose values are in its value list.             *)
C14_LazyManyRest ==
    (Done("lazyMany") /\ Returned /\ result.success /\ result.value.t = "array") =>
        result.rest = slice(input, TextLength(result.value.l))

(* a run alone: the call made with an environment of its own, line 1 and   *)
(* col 1, that no other call has touched                                   *)
Root == [line |-> 1, col |-> 1, terminals |-> Absent]

Alone(in) ==
    IF op = "terminals" THEN Call(parser, in, <<Root>>, NoAcc)
    ELSE Call(parser, in, <<Root, Own(Absent)>>, NoAcc)

====
